---- MODULE Spec2Model ----
(***************************************************************************)
(* NYC Yellow Taxi dashboard (app.py): the dataset loader/cleaner          *)
(* load_data and the filter engine with its derived aggregates.            *)
(*                                                                         *)
(* Timestamps are minutes since 2024-01-01 00:00, so the cleaning window   *)
(* ['2024-01-01', '2024-02-01') is [WindowStart, WindowEnd).  Money is in  *)
(* whole dollars, distance in whole miles.  A missing value (pandas NaN /  *)
(* NaT) is the value NaN, and comparisons with it are false as in pandas.  *)
(***************************************************************************)
EXTENDS Integers, Sequences, FiniteSets, TLC

\* ------------------------------------------------------------------------
\* Bounds of the model
\* ------------------------------------------------------------------------
MaxRawRows == 2   \* rows of the remote monthly extract (loader)
MaxRuns == 3      \* calls of load_data
MaxRows == 2      \* rows of the cleaned dataset the dashboard starts from
MaxExtra == 1     \* rows added to the base view of the zone ranking

\* ------------------------------------------------------------------------
\* Values
\* ------------------------------------------------------------------------
NaN == 0 - 1000000
MinutesPerDay == 1440
WindowStart == 0
WindowEnd == 44640
FareCap == 500
TopN == 10
LastHour == 23

IsNa(x) == x = NaN
\* pandas comparisons: any comparison with a missing value is False
Gt(a, b) == ~IsNa(a) /\ ~IsNa(b) /\ a > b
Ge(a, b) == ~IsNa(a) /\ ~IsNa(b) /\ a >= b
Le(a, b) == ~IsNa(a) /\ ~IsNa(b) /\ a <= b
Lt(a, b) == ~IsNa(a) /\ ~IsNa(b) /\ a < b

day_order == <<"Monday", "Tuesday", "Wednesday", "Thursday", "Friday", "Saturday", "Sunday">>

\* .dt.date, as the day of January 2024 (1 = 2024-01-01; 0 and below = December)
DateOf(t) == (t \div MinutesPerDay) + 1
\* .dt.hour
HourOf(t) == (t % MinutesPerDay) \div 60
\* .dt.day_name(): 2024-01-01 is a Monday
DayName(t) == day_order[((t \div MinutesPerDay) % 7) + 1]

\* ------------------------------------------------------------------------
\* Tables
\* ------------------------------------------------------------------------
\* A row of the raw monthly extract
RawRow(pu, do, loc, fare, dist, ptype) ==
    [tpep_pickup_datetime |-> pu, tpep_dropoff_datetime |-> do,
     PULocationID |-> loc, DOLocationID |-> loc,
     fare_amount |-> fare, trip_distance |-> dist,
     total_amount |-> IF IsNa(fare) THEN NaN ELSE fare + 3, payment_type |-> ptype]

\* ------------------------------------------------------------------------
\* load_data: the cleaning pass (lines 37-55)
\* ------------------------------------------------------------------------
NotNaRequired(r) ==
    /\ ~IsNa(r.tpep_pickup_datetime)
    /\ ~IsNa(r.tpep_dropoff_datetime)
    /\ ~IsNa(r.PULocationID)
    /\ ~IsNa(r.DOLocationID)
    /\ ~IsNa(r.fare_amount)

DistancePositive(r) == Gt(r.trip_distance, 0)
FarePositive(r) == Gt(r.fare_amount, 0)
FareAtMostCap(r) == Le(r.fare_amount, FareCap)
DropoffAfterPickupOrEqual(r) == Ge(r.tpep_dropoff_datetime, r.tpep_pickup_datetime)
DropoffAfterPickup(r) == Gt(r.tpep_dropoff_datetime, r.tpep_pickup_datetime)
InWindow(r) ==
    Ge(r.tpep_pickup_datetime, WindowStart) /\ Lt(r.tpep_pickup_datetime, WindowEnd)

\* trip_speed_mph: distance / (duration / 60) as an exact fraction, 0 where
\* the duration is not positive
TripSpeed(dist, dur) ==
    IF Gt(dur, 0) THEN [num |-> dist * 60, den |-> dur] ELSE [num |-> 0, den |-> 1]

Derive(r) ==
    LET dur == r.tpep_dropoff_datetime - r.tpep_pickup_datetime
    IN [tpep_pickup_datetime |-> r.tpep_pickup_datetime,
        tpep_dropoff_datetime |-> r.tpep_dropoff_datetime,
        PULocationID |-> r.PULocationID, DOLocationID |-> r.DOLocationID,
        fare_amount |-> r.fare_amount, trip_distance |-> r.trip_distance,
        total_amount |-> r.total_amount, payment_type |-> r.payment_type,
        trip_duration_minutes |-> dur,
        trip_speed_mph |-> TripSpeed(r.trip_distance, dur),
        pickup_hour |-> HourOf(r.tpep_pickup_datetime),
        pickup_day_of_week |-> DayName(r.tpep_pickup_datetime)]

CleanPass(raw) ==
    LET d1 == SelectSeq(raw, NotNaRequired)
        d2 == SelectSeq(d1, DistancePositive)
        d3 == SelectSeq(d2, FarePositive)
        d4 == SelectSeq(d3, FareAtMostCap)
        d5 == SelectSeq(d4, DropoffAfterPickup)
        d6 == SelectSeq(d5, InWindow)
    IN [i \in 1..Len(d6) |-> Derive(d6[i])]

\* ------------------------------------------------------------------------
\* The remote sources and the local files
\* ------------------------------------------------------------------------
zone_path == "data/raw/taxi_zone_lookup.csv"
raw_path == "data/raw/yellow_tripdata_2024-01.parquet"
parquet_path == "data/raw/taxi_cleaned.parquet"

\* Zone names in ascending order; "N/A" is what read_csv reads as missing
ZoneNames == <<"A", "B", "C", "D", "E", "F", "G", "H", "I", "J", "K", "L">>
NoZone == "N/A"
NumZones == Len(ZoneNames)
\* The zone lookup table: LocationID -> Zone (ids do not follow the names'
\* order), and one location whose zone name is missing
ZoneTable ==
    [i \in 1..(NumZones + 1) |->
        [LocationID |-> i,
         Zone |-> IF i <= NumZones THEN ZoneNames[(i * 5) % (NumZones + 1)] ELSE NoZone]]

\* Rows of the remote monthly extract: two trips that pass the cleaning on
\* its boundaries, and trips that each fail one of its conditions
RawUniverse ==
    {RawRow(WindowStart, WindowStart + 1, 1, FareCap, 1, 1),
     RawRow(WindowEnd - 1, WindowEnd + 20, 2, 1, 3, NaN),
     RawRow(NaN, 615, 1, 10, 2, 1),
     RawRow(600, 615, 1, 10, 0, 1),
     RawRow(600, 615, 1, 0, 2, 2),
     RawRow(600, 615, 1, FareCap + 1, 2, 1),
     RawRow(600, 600, 1, 10, 2, 1),
     RawRow(WindowStart - 1, WindowStart + 15, 1, 10, 2, 1),
     RawRow(WindowEnd, WindowEnd + 15, 1, 10, 2, 1)}

RECURSIVE SeqsUpTo(_, _)
\* The sequences over S of length at most n
SeqsUpTo(S, n) ==
    IF n = 0 THEN {<<>>}
    ELSE LET shorter == SeqsUpTo(S, n - 1)
         IN shorter \cup {Append(q, x) : q \in {t \in shorter : Len(t) = n - 1}, x \in S}

RawDatasets == SeqsUpTo(RawUniverse, MaxRawRows)

Absent == [st |-> "absent", rows |-> <<>>]
Valid(rows) == [st |-> "valid", rows |-> rows]
ErrBody == [st |-> "errbody", rows |-> <<>>]
EmptyFile == [st |-> "empty", rows |-> <<>>]
TruncatedBinary == [st |-> "partial", rows |-> <<>>]
\* What an interrupted write of a text file can leave: nothing written, the
\* header line alone, or all rows but the last (the cases read_csv tells
\* apart: no data to parse, an empty table, a shortened table)
TruncatedText(content) ==
    {EmptyFile} \cup
    {[st |-> "partial", rows |-> SubSeq(content.rows, 1, k)] : k \in {0, Len(content.rows) - 1}}

\* os.path.exists
ExistsNever(f) == FALSE
Exists(f) == f.st # "absent"

\* pd.read_parquet succeeds on a complete parquet file only
ParquetReadable(f) == f.st = "valid"
\* pd.read_csv fails on a file of zero bytes, and parses anything else
CsvReadable(f) == f.st \notin {"absent", "empty"}
ReadCsv(f) ==
    [columns |-> IF f.st = "errbody" THEN <<"<?xml">> ELSE <<"LocationID", "Zone">>,
     rows |-> f.rows]

\* ------------------------------------------------------------------------
\* State
\* ------------------------------------------------------------------------
VARIABLES
    \* load_data and its environment
    remoteTrips,   \* the rows of the remote monthly extract
    dataDir,       \* the directory data/raw exists
    zoneFile,      \* data/raw/taxi_zone_lookup.csv
    rawFile,       \* data/raw/yellow_tripdata_2024-01.parquet
    cleanedFile,   \* data/raw/taxi_cleaned.parquet
    memo,          \* the st.cache_data entry of load_data in this process
    lpc,           \* where the current call of load_data is
    resp,          \* r, the response of the last requests.get
    frame,         \* df inside the cleaning pass
    result,        \* what the last call returned
    runNo,         \* calls made so far
    fetches,       \* remote fetches of the current call
    writes,        \* files the current call opened for writing
    cleaned,       \* the current call ran the cleaning pass
    completed,     \* the first result returned, once a call has returned
    later,         \* the current call started after a call had returned
    everWritten    \* files any call opened for writing

loaderVars == <<remoteTrips, dataDir, zoneFile, rawFile, cleanedFile, memo, lpc, resp, frame,
                result, runNo, fetches, writes, cleaned, completed, later, everWritten>>

VARIABLES
    \* the dashboard script
    df,                 \* the trip table of the script, with payment_label
    zones,              \* the zone table of the script
    snapshot,           \* df as load_data returned it and line 67 labelled it
    pc,                 \* where the current run of the script is
    date_range,         \* the value of the date control: a tuple of 0 to 2 dates
    hour_range,         \* the value of the hour slider
    selected_payments,  \* the value of the payment multiselect
    start_date,
    end_date,
    filtered_df,
    metrics,            \* the five texts of the Key Metrics row
    top_zones,
    heatmap_pivot

dashVars == <<df, zones, snapshot, pc, date_range, hour_range, selected_payments,
              start_date, end_date, filtered_df, metrics, top_zones, heatmap_pivot>>
vars == <<loaderVars, dashVars>>

NoResult == [df |-> <<>>, zones |-> [columns |-> <<>>, rows |-> <<>>]]
NoMemo == [set |-> FALSE, val |-> NoResult]

NotRunning == lpc \in {"idle", "returned", "failed"}

Raise ==
    /\ lpc' = "failed"

\* ------------------------------------------------------------------------
\* load_data, step by step (lines 12-61)
\* ------------------------------------------------------------------------
\* A call of load_data: a hit of st.cache_data returns the memoized value
\* without running the body; otherwise the body starts with os.makedirs,
\* which can fail only while the directory does not exist (exist_ok=True).
Call ==
    /\ UNCHANGED dashVars
    /\ NotRunning
    /\ runNo < MaxRuns
    /\ runNo' = runNo + 1
    /\ later' = completed.set
    /\ fetches' = 0
    /\ writes' = {}
    /\ cleaned' = FALSE
    /\ resp' = Absent
    /\ frame' = <<>>
    /\ IF memo.set
       THEN lpc' = "returned" /\ result' = memo.val
            /\ UNCHANGED dataDir
       ELSE \E makedirs_ok \in {TRUE} \cup {dataDir} :
                /\ lpc' = IF makedirs_ok THEN "zone_check" ELSE "failed"
                /\ dataDir' = makedirs_ok
                /\ result' = NoResult
    /\ UNCHANGED <<remoteTrips, zoneFile, rawFile, cleanedFile, memo, completed, everWritten>>

\* The process ends and a new one starts: the in-memory cache is gone, the
\* files stay.
NewProcess ==
    /\ UNCHANGED dashVars
    /\ NotRunning
    /\ lpc # "idle"
    /\ memo' = NoMemo
    /\ lpc' = "idle"
    /\ resp' = Absent
    /\ frame' = <<>>
    /\ result' = NoResult
    /\ fetches' = 0
    /\ writes' = {}
    /\ cleaned' = FALSE
    /\ later' = FALSE
    /\ UNCHANGED <<remoteTrips, dataDir, zoneFile, rawFile, cleanedFile, runNo, completed, everWritten>>

\* line 20
ZoneCheck ==
    /\ UNCHANGED dashVars
    /\ lpc = "zone_check"
    /\ lpc' = IF Exists(zoneFile) THEN "pq_check" ELSE "zone_fetch"
    /\ UNCHANGED <<remoteTrips, dataDir, zoneFile, rawFile, cleanedFile, memo, resp, frame,
                   result, runNo, fetches, writes, cleaned, completed, later, everWritten>>

\* line 22: requests.get raises when the server cannot be reached; a response
\* with an error status is returned like any other (its status is not looked at)
ZoneFetch ==
    /\ UNCHANGED dashVars
    /\ lpc = "zone_fetch"
    /\ fetches' = fetches + 1
    /\ \E outcome \in {"ok", "http_error", "exception"} :
        CASE outcome = "ok" -> resp' = Valid(ZoneTable) /\ lpc' = "zone_write"
          [] outcome = "http_error" -> resp' = ErrBody /\ lpc' = "zone_write"
          [] outcome = "exception" -> Raise /\ UNCHANGED resp
    /\ UNCHANGED <<remoteTrips, dataDir, zoneFile, rawFile, cleanedFile, memo, frame,
                   result, runNo, writes, cleaned, completed, later, everWritten>>

\* lines 23-24
ZoneWrite ==
    /\ UNCHANGED dashVars
    /\ lpc = "zone_write"
    /\ \E outcome \in {"ok", "open_fails", "write_fails"} :
        CASE outcome = "ok" ->
                /\ zoneFile' = resp
                /\ lpc' = "pq_check"
                /\ writes' = writes \cup {zone_path}
                /\ everWritten' = everWritten \cup {zone_path}
          [] outcome = "open_fails" ->
                Raise /\ UNCHANGED <<zoneFile, writes, everWritten>>
          [] outcome = "write_fails" ->
                /\ zoneFile' \in TruncatedText(resp)
                /\ Raise
                /\ writes' = writes \cup {zone_path}
                /\ everWritten' = everWritten \cup {zone_path}
    /\ UNCHANGED <<remoteTrips, dataDir, rawFile, cleanedFile, memo, resp, frame,
                   result, runNo, fetches, cleaned, completed, later>>

\* line 28
ParquetCheck ==
    /\ UNCHANGED dashVars
    /\ lpc = "pq_check"
    /\ lpc' = IF Exists(cleanedFile) THEN "read" ELSE "raw_fetch"
    /\ UNCHANGED <<remoteTrips, dataDir, zoneFile, rawFile, cleanedFile, memo, resp, frame,
                   result, runNo, fetches, writes, cleaned, completed, later, everWritten>>

\* line 30
RawFetch ==
    /\ UNCHANGED dashVars
    /\ lpc = "raw_fetch"
    /\ fetches' = fetches + 1
    /\ \E outcome \in {"ok", "http_error", "exception"} :
        CASE outcome = "ok" -> resp' = Valid(remoteTrips) /\ lpc' = "raw_write"
          [] outcome = "http_error" -> resp' = ErrBody /\ lpc' = "raw_write"
          [] outcome = "exception" -> Raise /\ UNCHANGED resp
    /\ UNCHANGED <<remoteTrips, dataDir, zoneFile, rawFile, cleanedFile, memo, frame,
                   result, runNo, writes, cleaned, completed, later, everWritten>>

\* lines 31-33: the body is streamed to the raw file chunk by chunk; the
\* transfer or a write can fail after some chunks
RawWrite ==
    /\ UNCHANGED dashVars
    /\ lpc = "raw_write"
    /\ \E outcome \in {"ok", "open_fails", "stream_breaks", "write_fails"} :
        CASE outcome = "ok" ->
                /\ rawFile' = resp
                /\ lpc' = "clean"
                /\ writes' = writes \cup {raw_path}
                /\ everWritten' = everWritten \cup {raw_path}
          [] outcome = "open_fails" ->
                Raise /\ UNCHANGED <<rawFile, writes, everWritten>>
          [] outcome \in {"stream_breaks", "write_fails"} ->
                /\ rawFile' = TruncatedBinary
                /\ Raise
                /\ writes' = writes \cup {raw_path}
                /\ everWritten' = everWritten \cup {raw_path}
    /\ UNCHANGED <<remoteTrips, dataDir, zoneFile, cleanedFile, memo, resp, frame,
                   result, runNo, fetches, cleaned, completed, later>>

\* lines 36-55
ParseAndClean ==
    /\ UNCHANGED dashVars
    /\ lpc = "clean"
    /\ IF ParquetReadable(rawFile)
       THEN /\ frame' = CleanPass(rawFile.rows)
            /\ cleaned' = TRUE
            /\ lpc' = "snapshot_write"
       ELSE Raise /\ UNCHANGED <<frame, cleaned>>
    /\ UNCHANGED <<remoteTrips, dataDir, zoneFile, rawFile, cleanedFile, memo, resp,
                   result, runNo, fetches, writes, completed, later, everWritten>>

\* line 57
SnapshotWrite ==
    /\ UNCHANGED dashVars
    /\ lpc = "snapshot_write"
    /\ \E outcome \in {"ok", "open_fails", "write_fails"} :
        CASE outcome = "ok" ->
                /\ cleanedFile' = Valid(frame)
                /\ lpc' = "read"
                /\ writes' = writes \cup {parquet_path}
                /\ everWritten' = everWritten \cup {parquet_path}
          [] outcome = "open_fails" ->
                Raise /\ UNCHANGED <<cleanedFile, writes, everWritten>>
          [] outcome = "write_fails" ->
                /\ cleanedFile' = TruncatedBinary
                /\ Raise
                /\ writes' = writes \cup {parquet_path}
                /\ everWritten' = everWritten \cup {parquet_path}
    /\ UNCHANGED <<remoteTrips, dataDir, zoneFile, rawFile, memo, resp, frame,
                   result, runNo, fetches, cleaned, completed, later>>

\* lines 59-61, and st.cache_data storing the returned value
ReadBack ==
    /\ UNCHANGED dashVars
    /\ lpc = "read"
    /\ IF ParquetReadable(cleanedFile) /\ CsvReadable(zoneFile)
       THEN LET val == [df |-> cleanedFile.rows, zones |-> ReadCsv(zoneFile)]
            IN /\ result' = val
               /\ memo' = [set |-> TRUE, val |-> val]
               /\ completed' = IF completed.set THEN completed
                               ELSE [set |-> TRUE, val |-> val]
               /\ lpc' = "returned"
       ELSE Raise /\ UNCHANGED <<result, memo, completed>>
    /\ UNCHANGED <<remoteTrips, dataDir, zoneFile, rawFile, cleanedFile, resp, frame,
                   runNo, fetches, writes, cleaned, later, everWritten>>

\* ------------------------------------------------------------------------
\* The dashboard script: payment labels (lines 66-67)
\* ------------------------------------------------------------------------
payment_labels ==
    [c \in 1..5 |-> CASE c = 1 -> "Credit Card" [] c = 2 -> "Cash" [] c = 3 -> "No Charge"
                      [] c = 4 -> "Dispute" [] c = 5 -> "Unknown"]

\* .map(payment_labels).fillna('Other')
PaymentLabel(code) ==
    IF code \in DOMAIN payment_labels THEN payment_labels[code] ELSE "Other"

WithPaymentLabel(r) ==
    [tpep_pickup_datetime |-> r.tpep_pickup_datetime,
     tpep_dropoff_datetime |-> r.tpep_dropoff_datetime,
     PULocationID |-> r.PULocationID, DOLocationID |-> r.DOLocationID,
     fare_amount |-> r.fare_amount, trip_distance |-> r.trip_distance,
     total_amount |-> r.total_amount, payment_type |-> r.payment_type,
     trip_duration_minutes |-> r.trip_duration_minutes,
     trip_speed_mph |-> r.trip_speed_mph,
     pickup_hour |-> r.pickup_hour,
     pickup_day_of_week |-> r.pickup_day_of_week,
     payment_label |-> PaymentLabel(r.payment_type)]

\* ------------------------------------------------------------------------
\* Sidebar controls (lines 80-103)
\* ------------------------------------------------------------------------
SetMin(S) == CHOOSE x \in S : \A y \in S : x <= y
SetMax(S) == CHOOSE x \in S : \A y \in S : x >= y
PickupDates(rows) == {DateOf(rows[i].tpep_pickup_datetime) : i \in 1..Len(rows)}
\* .dt.date.min() / .max(): missing on an empty table
min_date(rows) == IF rows = <<>> THEN NaN ELSE SetMin(PickupDates(rows))
max_date(rows) == IF rows = <<>> THEN NaN ELSE SetMax(PickupDates(rows))
\* df['payment_label'].unique()
payment_optionsMappedOnly(rows) == {rows[i].payment_label : i \in 1..Len(rows)} \ {"Other"}
payment_options(rows) == {rows[i].payment_label : i \in 1..Len(rows)}

DefaultDateRange(rows) == <<min_date(rows), max_date(rows)>>
DefaultHourRange == <<0, LastHour>>

\* ------------------------------------------------------------------------
\* Applying the filters (lines 105-117)
\* ------------------------------------------------------------------------
\* lines 106-109: the pair as given, else element 0 for both; date_range[0]
\* raises IndexError on the empty tuple
DateRangeOk(dr) == Len(dr) >= 1
StartDate(dr) == dr[1]
EndDate(dr) == IF Len(dr) = 2 THEN dr[2] ELSE dr[1]

FilterMaskExclusiveEnd(r, start, end, hours, selected) ==
    /\ DateOf(r.tpep_pickup_datetime) >= start
    /\ DateOf(r.tpep_pickup_datetime) < end
    /\ r.pickup_hour >= hours[1]
    /\ r.pickup_hour <= hours[2]
    /\ r.payment_label \in selected
FilterMask(r, start, end, hours, selected) ==
    /\ DateOf(r.tpep_pickup_datetime) >= start
    /\ DateOf(r.tpep_pickup_datetime) <= end
    /\ r.pickup_hour >= hours[1]
    /\ r.pickup_hour <= hours[2]
    /\ r.payment_label \in selected

FilterRows(rows, start, end, hours, selected) ==
    LET Keep(r) == FilterMask(r, start, end, hours, selected)
    IN SelectSeq(rows, Keep)

\* ------------------------------------------------------------------------
\* Key metrics (lines 119-126)
\* ------------------------------------------------------------------------
RECURSIVE SumSkipNa(_)
\* Series.sum(): missing values are skipped, the sum of nothing is 0
SumSkipNa(vals) ==
    IF vals = <<>> THEN 0
    ELSE (IF IsNa(Head(vals)) THEN 0 ELSE Head(vals)) + SumSkipNa(Tail(vals))

CountNotNa(vals) == Cardinality({i \in 1..Len(vals) : ~IsNa(vals[i])})

\* Series.mean(): the exact quotient, or missing when there is no value
Mean(vals) ==
    IF CountNotNa(vals) = 0
    THEN [nan |-> TRUE, num |-> 0, den |-> 1]
    ELSE [nan |-> FALSE, num |-> SumSkipNa(vals), den |-> CountNotNa(vals)]

\* num/den rounded to the nearest integer, halves to even
RoundHalfEven(num, den) ==
    LET q == num \div den
        r == num % den
    IN IF 2 * r > den THEN q + 1
       ELSE IF 2 * r = den THEN q + (q % 2)
       ELSE q

Pow10(k) == IF k = 0 THEN 1 ELSE IF k = 1 THEN 10 ELSE 100

\* f'{x:.kf}': the text 'nan' for a missing value, else the value rounded to
\* k decimals (held as the integer value * 10^k)
FormatFixed(m, k) ==
    IF m.nan THEN [text |-> "nan", scaled |-> 0]
    ELSE [text |-> "number", scaled |-> RoundHalfEven(m.num * Pow10(k), m.den)]

KeyMetricsOf(view) ==
    [total_trips |-> Len(view),
     avg_fare |-> FormatFixed(Mean([i \in 1..Len(view) |-> view[i].fare_amount]), 2),
     total_revenue |-> SumSkipNa([i \in 1..Len(view) |-> view[i].total_amount]),
     avg_distance |-> FormatFixed(Mean([i \in 1..Len(view) |-> view[i].trip_distance]), 2),
     avg_duration |-> FormatFixed(Mean([i \in 1..Len(view) |-> view[i].trip_duration_minutes]), 1)]

\* ------------------------------------------------------------------------
\* Top pickup zones (lines 139-146)
\* ------------------------------------------------------------------------
RECURSIVE MergeZones(_, _)
\* filtered_df.merge(zones, left_on='PULocationID', right_on='LocationID'):
\* an inner join; of the joined columns only Zone is used afterwards
MergeZones(view, ztable) ==
    IF view = <<>> THEN <<>>
    ELSE LET Matches(z) == z.LocationID = Head(view).PULocationID
             joined == SelectSeq(ztable, Matches)
         IN [k \in 1..Len(joined) |-> joined[k].Zone] \o MergeZones(Tail(view), ztable)

Occurrences(col, v) == Cardinality({i \in 1..Len(col) : col[i] = v})

\* .groupby('Zone').size().reset_index(name='total_trips'): one row per zone
\* name, in ascending order of the name; rows with a missing name are left out
GroupSize(zoneCol) ==
    LET Present(z) == \E i \in 1..Len(zoneCol) : zoneCol[i] = z
        keys == SelectSeq(ZoneNames, Present)
    IN [k \in 1..Len(keys) |-> [Zone |-> keys[k], total_trips |-> Occurrences(zoneCol, keys[k])]]

RECURSIVE DescendingOrders(_)
\* .sort_values('total_trips', ascending=False): the sort is pandas' default
\* quicksort, which is not stable, so rows of equal count come out in an
\* order the code does not fix: every order by descending count is possible
DescendingOrders(S) ==
    IF S = {} THEN {<<>>}
    ELSE LET top == {x \in S : \A y \in S : x.total_trips >= y.total_trips}
         IN UNION {{<<x>> \o rest : rest \in DescendingOrders(S \ {x})} : x \in top}

SortValuesOutcomes(grouped) == DescendingOrders({grouped[i] : i \in 1..Len(grouped)})

\* .head(n)
HeadRowsShort(rows, n) == SubSeq(rows, 1, IF Len(rows) < n - 1 THEN Len(rows) ELSE n - 1)
HeadRows(rows, n) == SubSeq(rows, 1, IF Len(rows) < n THEN Len(rows) ELSE n)

TopZonesOutcomes(view, ztable) ==
    {HeadRows(sorted, TopN) : sorted \in SortValuesOutcomes(GroupSize(MergeZones(view, ztable)))}

\* ------------------------------------------------------------------------
\* Trips by day of week and hour (lines 194-205)
\* ------------------------------------------------------------------------
AlphabeticalDays ==
    <<"Friday", "Monday", "Saturday", "Sunday", "Thursday", "Tuesday", "Wednesday">>
PositionIn(seq, v) == CHOOSE i \in 1..Len(seq) : seq[i] = v

\* The sort key of the pivot's index: the code of the day in the ordered
\* Categorical built from day_order
DayIndexKeyAlphabetical(d) == PositionIn(AlphabeticalDays, d)
DayIndexKey(d) == PositionIn(day_order, d)

RECURSIVE SortedByRank(_, _)
\* The elements of S as a sequence in ascending order of rank
SortedByRank(S, rank) ==
    IF S = {} THEN <<>>
    ELSE LET lo == CHOOSE x \in S : \A y \in S : rank[x] <= rank[y]
         IN <<lo>> \o SortedByRank(S \ {lo}, rank)

\* groupby(['pickup_day_of_week', 'pickup_hour']).size(): the pairs that occur
DayHourCount(view, d, h) ==
    Cardinality({i \in 1..Len(view) :
                    view[i].pickup_day_of_week = d /\ view[i].pickup_hour = h})

\* .pivot(index day, columns hour, values trip_count): rows are the days that
\* occur in index order, columns the hours that occur in ascending order, and
\* a cell of a pair that does not occur is missing
HeatmapPivot(view) ==
    LET days == {view[i].pickup_day_of_week : i \in 1..Len(view)}
        hours == {view[i].pickup_hour : i \in 1..Len(view)}
    IN [index |-> SortedByRank(days, [d \in days |-> DayIndexKey(d)]),
        columns |-> SortedByRank(hours, [h \in hours |-> h]),
        values |-> [c \in days \X hours |->
                      IF DayHourCount(view, c[1], c[2]) = 0 THEN NaN
                      ELSE DayHourCount(view, c[1], c[2])]]

\* ------------------------------------------------------------------------
\* Placeholders and datasets of the dashboard script
\* ------------------------------------------------------------------------
NoMetrics ==
    [total_trips |-> 0, avg_fare |-> [text |-> "", scaled |-> 0], total_revenue |-> 0,
     avg_distance |-> [text |-> "", scaled |-> 0], avg_duration |-> [text |-> "", scaled |-> 0]]
NoPivot == [index |-> <<>>, columns |-> <<>>, values |-> <<>>]

\* What a run of the script starts from: nothing derived yet
FreshRun ==
    /\ start_date' = NaN
    /\ end_date' = NaN
    /\ filtered_df' = <<>>
    /\ metrics' = NoMetrics
    /\ top_zones' = <<>>
    /\ heatmap_pivot' = NoPivot

\* Cleaned trips the dashboard is explored on: two weekdays that the
\* alphabet and the calendar order differently, the first and the last hour,
\* mapped, unmapped and missing payment codes
DashUniverse ==
    {RawRow(30, 45, 1, 10, 2, 1),
     RawRow(6480, 6500, 3, 20, 5, 2),
     RawRow(10079, 10100, 2, FareCap, 30, 99),
     RawRow(7140, 7150, Len(ZoneTable), 7, 1, NaN)}

RECURSIVE Repeat(_, _)
Repeat(x, n) == IF n = 0 THEN <<>> ELSE <<x>> \o Repeat(x, n - 1)
RECURSIVE Reversed(_)
Reversed(q) == IF q = <<>> THEN <<>> ELSE Append(Reversed(Tail(q)), Head(q))
RECURSIVE Flatten(_)
Flatten(qq) == IF qq = <<>> THEN <<>> ELSE Head(qq) \o Flatten(Tail(qq))

\* Trips for the zone ranking: locations 1..9 with 10, 9, .., 2 trips and
\* locations 10 and 11 with one trip each (eleven zones, the last two tied
\* where the ranking is cut), and up to MaxExtra more trips from the less
\* busy locations, from the location without a zone name and from a location
\* the lookup does not have; each list also in reverse order
ZoneTrip(loc) == RawRow(600, 615, loc, 10, 2, 1)
BaseZoneTrips ==
    Flatten([i \in 1..9 |-> Repeat(ZoneTrip(i), 11 - i)]) \o <<ZoneTrip(10), ZoneTrip(11)>>
ExtraLocations == {9, 10, 11, 12, Len(ZoneTable), 99}
ZoneDatasets ==
    LET forward == {BaseZoneTrips \o [k \in 1..Len(x) |-> ZoneTrip(x[k])] :
                        x \in SeqsUpTo(ExtraLocations, MaxExtra)}
    IN forward \cup {Reversed(q) : q \in forward}

DashDatasets == SeqsUpTo(DashUniverse, MaxRows) \cup ZoneDatasets

\* A first start: no local file yet, and the script waiting at line 63
InitLoader ==
    /\ remoteTrips \in RawDatasets
    /\ dataDir = FALSE
    /\ zoneFile = Absent
    /\ rawFile = Absent
    /\ cleanedFile = Absent
    /\ memo = NoMemo
    /\ lpc = "idle"
    /\ resp = Absent
    /\ frame = <<>>
    /\ result = NoResult
    /\ runNo = 0
    /\ fetches = 0
    /\ writes = {}
    /\ cleaned = FALSE
    /\ completed = NoMemo
    /\ later = FALSE
    /\ everWritten = {}
    /\ df = <<>>
    /\ zones = <<>>
    /\ snapshot = <<>>
    /\ pc = "loading"
    /\ date_range = <<>>
    /\ hour_range = DefaultHourRange
    /\ selected_payments = {}
    /\ start_date = NaN
    /\ end_date = NaN
    /\ filtered_df = <<>>
    /\ metrics = NoMetrics
    /\ top_zones = <<>>
    /\ heatmap_pivot = NoPivot

\* The first run of the script after a first, successful load_data: the
\* controls hold their defaults
InitDash ==
    /\ remoteTrips \in DashDatasets
    /\ dataDir = TRUE
    /\ zoneFile = Valid(ZoneTable)
    /\ rawFile = Valid(remoteTrips)
    /\ cleanedFile = Valid(CleanPass(remoteTrips))
    /\ result = [df |-> cleanedFile.rows, zones |-> ReadCsv(zoneFile)]
    /\ memo = [set |-> TRUE, val |-> result]
    /\ completed = memo
    /\ lpc = "returned"
    /\ resp = Absent
    /\ frame = <<>>
    /\ runNo = 1
    /\ fetches = 2
    /\ writes = {zone_path, raw_path, parquet_path}
    /\ everWritten = writes
    /\ cleaned = TRUE
    /\ later = FALSE
    /\ df = [i \in 1..Len(result.df) |-> WithPaymentLabel(result.df[i])]
    /\ zones = result.zones.rows
    /\ snapshot = df
    /\ pc = "widgets"
    /\ date_range = DefaultDateRange(df)
    /\ hour_range = DefaultHourRange
    /\ selected_payments = payment_options(df)
    /\ start_date = NaN
    /\ end_date = NaN
    /\ filtered_df = <<>>
    /\ metrics = NoMetrics
    /\ top_zones = <<>>
    /\ heatmap_pivot = NoPivot

\* ------------------------------------------------------------------------
\* The dashboard script, step by step
\* ------------------------------------------------------------------------
\* Values the controls offer
HourChoices == {0, 12, LastHour}
DateChoices(rows) == {d \in PickupDates(rows) : min_date(rows) <= d /\ d <= max_date(rows)}
DateRangeChoices(rows) ==
    {<<>>}
    \cup {<<d>> : d \in DateChoices(rows)}
    \cup {p \in DateChoices(rows) \X DateChoices(rows) : p[1] <= p[2]}
HourRangeChoices == {p \in HourChoices \X HourChoices : p[1] <= p[2]}

\* lines 80-103: the controls are built from the table and return their
\* values; st.date_input rejects the missing min/max of an empty table
Widgets ==
    /\ pc = "widgets"
    /\ pc' = IF IsNa(min_date(df)) THEN "StreamlitAPIException" ELSE "filters"
    /\ UNCHANGED <<df, zones, snapshot, date_range, hour_range, selected_payments,
                   start_date, end_date, filtered_df, metrics, top_zones, heatmap_pivot>>
    /\ UNCHANGED loaderVars

\* lines 105-117
ApplyFiltersInPlace ==
    /\ pc = "filters"
    /\ IF DateRangeOk(date_range)
       THEN /\ start_date' = StartDate(date_range)
            /\ end_date' = EndDate(date_range)
            /\ filtered_df' = FilterRows(df, start_date', end_date', hour_range,
                                         selected_payments)
            /\ df' = filtered_df'
            /\ pc' = "metrics"
       ELSE /\ pc' = "IndexError"
            /\ UNCHANGED <<df, start_date, end_date, filtered_df>>
    /\ UNCHANGED <<zones, snapshot, date_range, hour_range, selected_payments,
                   metrics, top_zones, heatmap_pivot>>
    /\ UNCHANGED loaderVars
ApplyFilters ==
    /\ pc = "filters"
    /\ IF DateRangeOk(date_range)
       THEN /\ start_date' = StartDate(date_range)
            /\ end_date' = EndDate(date_range)
            /\ filtered_df' = FilterRows(df, start_date', end_date', hour_range,
                                         selected_payments)
            /\ pc' = "metrics"
       ELSE /\ pc' = "IndexError"
            /\ UNCHANGED <<start_date, end_date, filtered_df>>
    /\ UNCHANGED <<df, zones, snapshot, date_range, hour_range, selected_payments,
                   metrics, top_zones, heatmap_pivot>>
    /\ UNCHANGED loaderVars

\* lines 119-126
KeyMetrics ==
    /\ pc = "metrics"
    /\ metrics' = KeyMetricsOf(filtered_df)
    /\ pc' = "zones"
    /\ UNCHANGED <<df, zones, snapshot, date_range, hour_range, selected_payments,
                   start_date, end_date, filtered_df, top_zones, heatmap_pivot>>
    /\ UNCHANGED loaderVars

\* lines 139-146
TopZones ==
    /\ pc = "zones"
    /\ top_zones' \in TopZonesOutcomes(filtered_df, zones)
    /\ pc' = "heatmap"
    /\ UNCHANGED <<df, zones, snapshot, date_range, hour_range, selected_payments,
                   start_date, end_date, filtered_df, metrics, heatmap_pivot>>
    /\ UNCHANGED loaderVars

\* lines 194-205
Heatmap ==
    /\ pc = "heatmap"
    /\ heatmap_pivot' = HeatmapPivot(filtered_df)
    /\ pc' = "done"
    /\ UNCHANGED <<df, zones, snapshot, date_range, hour_range, selected_payments,
                   start_date, end_date, filtered_df, metrics, top_zones>>
    /\ UNCHANGED loaderVars

\* The user changes one control: the script runs again from the top (load_data
\* is served from the cache, the other controls keep their values)
UserInput ==
    /\ pc \in {"done", "IndexError"}
    /\ \/ /\ date_range' \in DateRangeChoices(df)
          /\ UNCHANGED <<hour_range, selected_payments>>
       \/ /\ hour_range' \in HourRangeChoices
          /\ UNCHANGED <<date_range, selected_payments>>
       \/ /\ selected_payments' \in SUBSET payment_options(df)
          /\ UNCHANGED <<date_range, hour_range>>
    /\ pc' = "widgets"
    /\ FreshRun
    /\ UNCHANGED <<df, zones, snapshot>>
    /\ UNCHANGED loaderVars

\* ------------------------------------------------------------------------
\* Specifications
\* ------------------------------------------------------------------------
NextLoader ==
    \/ Call
    \/ NewProcess
    \/ ZoneCheck
    \/ ZoneFetch
    \/ ZoneWrite
    \/ ParquetCheck
    \/ RawFetch
    \/ RawWrite
    \/ ParseAndClean
    \/ SnapshotWrite
    \/ ReadBack

NextDash ==
    \/ Widgets
    \/ ApplyFilters
    \/ KeyMetrics
    \/ TopZones
    \/ Heatmap
    \/ UserInput

\* load_data from a first start, with fetches and writes that may fail
SpecLoader == InitLoader /\ [][NextLoader]_vars
\* the script after a successful load, run again on every change of a control
Spec == InitDash /\ [][NextDash]_vars

\* ------------------------------------------------------------------------
\* Properties of load_data (checked under SpecLoader)
\* ------------------------------------------------------------------------
RowIsClean(r) ==
    /\ ~IsNa(r.tpep_pickup_datetime) /\ ~IsNa(r.tpep_dropoff_datetime)
    /\ ~IsNa(r.fare_amount) /\ ~IsNa(r.trip_distance)
    /\ r.tpep_dropoff_datetime > r.tpep_pickup_datetime
    /\ 0 < r.fare_amount /\ r.fare_amount <= FareCap
    /\ r.trip_distance > 0
    /\ WindowStart <= r.tpep_pickup_datetime /\ r.tpep_pickup_datetime < WindowEnd

\* C1: when load_data ran its cleaning pass and returned, every record of the
\* snapshot it wrote and of the table it returns has dropoff strictly after
\* pickup, 0 < fare_amount <= 500, trip_distance > 0 and a pickup time in
\* [2024-01-01, 2024-02-01).
C1_CleanedRecordsValid ==
    (lpc = "returned" /\ cleaned) =>
        /\ cleanedFile = Valid(result.df)
        /\ \A i \in 1..Len(result.df) : RowIsClean(result.df[i])

\* C1 witness: a cleaning pass that kept one record and dropped another
C1_Witness ==
    /\ lpc = "returned" /\ cleaned
    /\ Len(remoteTrips) = 2 /\ Len(result.df) = 1

\* C6 (as claimed): whenever a call of load_data returns, the zone lookup file
\* and the cleaned snapshot file hold complete valid content - no failed
\* fetch or write is ever accepted.
C6_NoPartialSuccess ==
    lpc = "returned" => (zoneFile.st = "valid" /\ cleanedFile.st = "valid")

\* A call that started after a call had returned: no fetch, no write, no
\* cleaning pass, no failure, and the same tables
LaterCallServedFromFiles ==
    later =>
        /\ fetches = 0
        /\ writes = {}
        /\ ~cleaned
        /\ lpc # "failed"
        /\ lpc = "returned" => result = completed.val

\* C7 (as claimed): once a call has returned, every later call fetches
\* nothing, writes nothing, does not clean again and returns the same tables;
\* and the only files load_data ever writes are the zone lookup copy and the
\* cleaned snapshot.
C7_OnlyTwoFilesWritten ==
    /\ LaterCallServedFromFiles
    /\ everWritten \subseteq {zone_path, parquet_path}

\* C7 (amended): once a call has returned, every later call (in the same
\* process or a new one) fetches nothing, writes nothing, does not clean
\* again and returns the same tables; the files load_data writes are the zone
\* lookup copy, the raw monthly extract and the cleaned snapshot.
C7_FirstRunOnly ==
    /\ LaterCallServedFromFiles
    /\ everWritten \subseteq {zone_path, raw_path, parquet_path}

\* C7 witness: a call in a new process after a completed first run, reading
\* the files the first run wrote
C7_Witness ==
    /\ later /\ lpc = "returned" /\ runNo >= 2
    /\ everWritten = {zone_path, raw_path, parquet_path}
    /\ Len(result.df) > 0

\* ------------------------------------------------------------------------
\* Properties of the dashboard script (checked under Spec)
\* ------------------------------------------------------------------------
Filtered == pc \in {"metrics", "zones", "heatmap", "done"}
MetricsShown == pc \in {"zones", "heatmap", "done"}
ZonesRanked == pc \in {"heatmap", "done"}

\* The record belongs to the view the claims describe
InClaimedView(r) ==
    /\ DateOf(r.tpep_pickup_datetime) \in start_date..end_date
    /\ HourOf(r.tpep_pickup_datetime) \in hour_range[1]..hour_range[2]
    /\ PaymentLabel(r.payment_type) \in selected_payments

\* C2: the filtered view is exactly the cleaned records whose pickup date is in
\* [start_date, end_date], whose pickup hour is in [hour_range[0],
\* hour_range[1]] (all ends inclusive) and whose payment label is selected;
\* with nothing selected the view is empty.
C2_FilteredViewExact ==
    Filtered =>
        /\ filtered_df = SelectSeq(df, InClaimedView)
        /\ selected_payments = {} => filtered_df = <<>>

\* C2 witness: a view that keeps a record picked up on end_date itself and
\* leaves another record out
C2_Witness ==
    /\ Filtered
    /\ start_date < end_date
    /\ Len(filtered_df) < Len(df)
    /\ \E i \in 1..Len(filtered_df) : DateOf(filtered_df[i].tpep_pickup_datetime) = end_date

AllLabels(rows) == {PaymentLabel(rows[i].payment_type) : i \in 1..Len(rows)}
DefaultControls ==
    /\ date_range = DefaultDateRange(df)
    /\ hour_range = DefaultHourRange
    /\ selected_payments = payment_options(df)

\* C3: with the default controls (minimum to maximum pickup date, hours 0 to
\* 23, every label that occurs in the dataset, 'Other' included) the filtered
\* view is the whole cleaned dataset.
C3_DefaultsKeepEverything ==
    (Filtered /\ DefaultControls) =>
        /\ selected_payments = AllLabels(df)
        /\ filtered_df = df

\* C3 witness: the defaults applied to two records, one with an unmapped or
\* missing payment code
C3_Witness ==
    /\ Filtered /\ DefaultControls
    /\ Len(df) = 2
    /\ "Other" \in selected_payments
    /\ date_range[1] < date_range[2]

\* C5 (as claimed): on an empty filtered view the trip count is 0 and each
\* mean metric is shown as an explicit 'no data' state, not as NaN.
C5_EmptyViewShowsNoData ==
    (MetricsShown /\ filtered_df = <<>>) =>
        /\ metrics.total_trips = 0
        /\ metrics.avg_fare.text = "no data"
        /\ metrics.avg_distance.text = "no data"
        /\ metrics.avg_duration.text = "no data"

\* C8: filtering the filtered view again with the same controls gives the
\* same view, and the filter leaves the dataset it reads unchanged.
C8_FilterIdempotent ==
    /\ df = snapshot
    /\ Filtered =>
        FilterRows(filtered_df, start_date, end_date, hour_range, selected_payments)
            = filtered_df

\* C8 witness: a view that keeps some records and drops others
C8_Witness ==
    /\ Filtered
    /\ Len(filtered_df) > 0
    /\ Len(filtered_df) < Len(df)

\* C10 (as claimed): whatever the date control returns, deriving the date
\* range does not fail; a pair is used as given, and any other value gives
\* start_date = end_date = its date, so only that date's records are kept.
C10_DateRangeNeverFails ==
    /\ pc # "IndexError"
    /\ Filtered =>
        /\ Len(date_range) = 2 => (start_date = date_range[1] /\ end_date = date_range[2])
        /\ Len(date_range) # 2 =>
            /\ start_date = date_range[1] /\ end_date = date_range[1]
            /\ \A i \in 1..Len(filtered_df) :
                  DateOf(filtered_df[i].tpep_pickup_datetime) = date_range[1]

\* The zone names the lookup gives the pickup location of a filtered trip
ZoneColumn ==
    [i \in 1..Len(filtered_df) |->
        IF \E k \in 1..Len(zones) : zones[k].LocationID = filtered_df[i].PULocationID
        THEN (CHOOSE z \in {zones[k].Zone : k \in 1..Len(zones)} :
                \E k \in 1..Len(zones) :
                    zones[k].LocationID = filtered_df[i].PULocationID /\ zones[k].Zone = z)
        ELSE NoZone]
\* The number of filtered trips per zone name
TripsPerZone ==
    LET col == ZoneColumn
    IN [z \in {ZoneNames[k] : k \in 1..Len(ZoneNames)} |->
            Cardinality({i \in 1..Len(col) : col[i] = z})]
Smaller(a, b) == IF a < b THEN a ELSE b

\* The ranking by trip count descending, equal counts by zone name ascending
RankedByCountThenName(trips) ==
    LET busy == {z \in DOMAIN trips : trips[z] > 0}
    IN SortedByRank(busy,
        [z \in busy |->
            (Len(filtered_df) - trips[z]) * (Len(ZoneNames) + 1) + PositionIn(ZoneNames, z)])

\* C4 (as claimed): the top pickup zones are the zones of the filtered trips
\* ranked by trip count descending, the first 10 of them, zones of equal count
\* in ascending order of their name.
C4_TiesByZoneName ==
    ZonesRanked =>
        LET trips == TripsPerZone
            ranked == RankedByCountThenName(trips)
        IN /\ Len(top_zones) = Smaller(TopN, Len(ranked))
           /\ \A k \in 1..Len(top_zones) :
                 /\ top_zones[k].Zone = ranked[k]
                 /\ top_zones[k].total_trips = trips[ranked[k]]

\* C4 (amended): the top pickup zones are zones of the filtered trips with
\* their trip counts, in descending order of count, the first 10 of such a
\* ranking: no zone left out has more trips than a listed one.  The order of
\* zones of equal count, and which of them the cut at 10 keeps, is not fixed.
C4_TopZonesByCount ==
    ZonesRanked =>
        LET trips == TripsPerZone
            busy == {z \in DOMAIN trips : trips[z] > 0}
            listed == {top_zones[k].Zone : k \in 1..Len(top_zones)}
        IN /\ Len(top_zones) = Smaller(TopN, Cardinality(busy))
           /\ listed \subseteq busy
           /\ Cardinality(listed) = Len(top_zones)
           /\ \A k \in 1..Len(top_zones) : top_zones[k].total_trips = trips[top_zones[k].Zone]
           /\ \A j, k \in 1..Len(top_zones) :
                 j < k => top_zones[j].total_trips >= top_zones[k].total_trips
           /\ \A z \in busy \ listed :
                 \A k \in 1..Len(top_zones) : top_zones[k].total_trips >= trips[z]

\* C4 witness: more than 10 zones have trips, and the 10 listed are not the
\* ones the tie-break by name would list
C4_Witness ==
    /\ ZonesRanked
    /\ Len(top_zones) = TopN
    /\ LET ranked == RankedByCountThenName(TripsPerZone)
       IN /\ Len(ranked) > TopN
          /\ \E k \in 1..TopN : top_zones[k].Zone # ranked[k]

HeatmapBuilt == pc = "done"
ViewDays == {filtered_df[i].pickup_day_of_week : i \in 1..Len(filtered_df)}
ViewHours == {filtered_df[i].pickup_hour : i \in 1..Len(filtered_df)}
RowsInWeekOrder ==
    \A j, k \in 1..Len(heatmap_pivot.index) :
        j < k => PositionIn(day_order, heatmap_pivot.index[j])
                    < PositionIn(day_order, heatmap_pivot.index[k])

\* C9 (as claimed): the rows of the day-of-week by hour table are in the order
\* Monday .. Sunday whatever the order of the records, and each cell holds
\* the number of filtered trips of its day and hour.
C9_EveryCellHoldsCount ==
    HeatmapBuilt =>
        /\ RowsInWeekOrder
        /\ \A c \in DOMAIN heatmap_pivot.values :
              heatmap_pivot.values[c] = DayHourCount(filtered_df, c[1], c[2])

\* C9 (amended): the rows of the table are the days of the week that occur
\* in the filtered view, in the order Monday .. Sunday whatever the order of
\* the records, its columns the hours that occur; a cell whose day and hour
\* occur together holds the number of such trips, and any other cell is
\* missing (NaN), not 0.
C9_HeatmapRowsInWeekOrder ==
    HeatmapBuilt =>
        /\ RowsInWeekOrder
        /\ {heatmap_pivot.index[k] : k \in 1..Len(heatmap_pivot.index)} = ViewDays
        /\ DOMAIN heatmap_pivot.values = ViewDays \X ViewHours
        /\ \A c \in ViewDays \X ViewHours :
              LET n == DayHourCount(filtered_df, c[1], c[2])
              IN heatmap_pivot.values[c] = IF n > 0 THEN n ELSE NaN

\* C9 witness: a Friday trip before a Monday trip in the view, at different
\* hours, so that the table has two rows and cells without trips
C9_Witness ==
    /\ HeatmapBuilt
    /\ Len(filtered_df) = 2
    /\ filtered_df[1].pickup_day_of_week = "Friday"
    /\ filtered_df[2].pickup_day_of_week = "Monday"
    /\ heatmap_pivot.index = <<"Monday", "Friday">>
    /\ \E c \in DOMAIN heatmap_pivot.values : IsNa(heatmap_pivot.values[c])

====
